---------------------------- MODULE Spec2Model ----------------------------
(***************************************************************************)
(* Model of library-search.js: the tenant discovery fetcher                *)
(* (fetchAllLibrariesFromAPI), the tenant list loader (loadLibrarySlugs)   *)
(* and the media search executor with its aggregator (searchLibraries),    *)
(* all sharing one in-memory rate limiter.                                 *)
(*                                                                         *)
(* Time is counted in seconds.  Strings that the code trims, parses or     *)
(* rewrites are sequences of tokens (one token per character, and one      *)
(* token for the domain suffix); strings that the code only compares or    *)
(* concatenates are TLA+ strings.                                          *)
(***************************************************************************)
EXTENDS Integers, Sequences, FiniteSets, TLC

(***************************************************************************)
(* Program constants.                                                      *)
(***************************************************************************)
\* rateLimiter: points per window (line 12) and window length in seconds (line 13)
Points == 1
Duration == 2
\* the page cap of discovery (line 69)
PageCap == 10

(***************************************************************************)
(* Bounds of the model.                                                    *)
(***************************************************************************)
\* index page requests one discovery pass may issue
MaxIdxReqs == 2
\* index page requests of one discovery against an endpoint that always has a
\* page to give
MaxPageReqs == 12
\* length of the tenant lists given to the ordering of lines 348-357
MaxTenants == 4
\* number of hits given to the aggregation of lines 418-433
MaxHits == 3

(***************************************************************************)
(* JavaScript values.                                                      *)
(***************************************************************************)
\* the value of a missing property, for properties that hold atomic strings
Undefined == "<undefined>"
\* the result of parseInt on a string with no leading digit
NaN == -1
Space == " "
Suffix == ".overdrive.com"
Digits == {"0", "1", "2", "3", "4", "5", "6", "7", "8", "9"}

DigitVal(c) ==
    CASE c = "0" -> 0 [] c = "1" -> 1 [] c = "2" -> 2 [] c = "3" -> 3
      [] c = "4" -> 4 [] c = "5" -> 5 [] c = "6" -> 6 [] c = "7" -> 7
      [] c = "8" -> 8 [] c = "9" -> 9

\* String.prototype.trim
RECURSIVE TrimLeft(_)
TrimLeft(s) ==
    IF s # <<>> /\ Head(s) = Space THEN TrimLeft(Tail(s)) ELSE s

RECURSIVE TrimRight(_)
TrimRight(s) ==
    IF s # <<>> /\ s[Len(s)] = Space THEN TrimRight(SubSeq(s, 1, Len(s) - 1)) ELSE s

Trim(s) == TrimRight(TrimLeft(s))

\* parseInt(s, 10): skips leading blanks, reads the leading digits, NaN if none
RECURSIVE ReadDigits(_, _)
ReadDigits(s, acc) ==
    IF s # <<>> /\ Head(s) \in Digits
    THEN ReadDigits(Tail(s), 10 * acc + DigitVal(Head(s)))
    ELSE acc

ParseInt(s) ==
    LET t == TrimLeft(s)
    IN  IF t # <<>> /\ Head(t) \in Digits THEN ReadDigits(t, 0) ELSE NaN

\* url.replace('.overdrive.com', ''): removes the first occurrence only
RECURSIVE StripSuffix(_)
StripSuffix(url) ==
    IF url = <<>> THEN <<>>
    ELSE IF Head(url) = Suffix THEN Tail(url)
    ELSE <<Head(url)>> \o StripSuffix(Tail(url))

\* item.f for a property that may be missing
Prop(item, f, missing) == IF f \in DOMAIN item THEN item[f] ELSE missing

(***************************************************************************)
(* Files.  A file is absent, holds text that JSON.parse rejects, or holds  *)
(* the JSON text of a value.                                               *)
(***************************************************************************)
NoFile == [exists |-> FALSE, parses |-> FALSE, val |-> <<>>]
BadFile == [exists |-> TRUE, parses |-> FALSE, val |-> <<>>]

\* JSON.stringify of one record: a property whose value is undefined is left out
StringifyRecord(r) ==
    IF "status" \in DOMAIN r /\ r.status = Undefined
    THEN [f \in (DOMAIN r) \ {"status"} |-> r[f]]
    ELSE r

\* fs.writeFileSync(file, JSON.stringify(list, null, 2))
JsonFile(list) ==
    [exists |-> TRUE, parses |-> TRUE,
     val |-> [i \in 1..Len(list) |-> StringifyRecord(list[i])]]

\* JSON.parse(fs.readFileSync(file)) succeeds
Readable(file) == file.exists /\ file.parses

(***************************************************************************)
(* The stable sort of Array.prototype.sort: x goes before y when the       *)
(* comparator ranks it lower, or ranks them equal and x came first.        *)
(***************************************************************************)
StableSort(s, Cmp(_, _)) ==
    LET n == Len(s)
        Before(i, j) == Cmp(s[i], s[j]) < 0 \/ (Cmp(s[i], s[j]) = 0 /\ i < j)
        Rank(i) == 1 + Cardinality({j \in 1..n : j # i /\ Before(j, i)})
    IN  [k \in 1..n |-> s[CHOOSE i \in 1..n : Rank(i) = k]]

Bit(b) == IF b THEN 1 ELSE 0


(***************************************************************************)
(* Discovery: normalization of the raw index items (lines 83-90).          *)
(***************************************************************************)
\* item.preferredKey || item.id || ''
RawKey(item) ==
    IF Prop(item, "preferredKey", <<>>) # <<>> THEN item.preferredKey
    ELSE IF Prop(item, "id", <<>>) # <<>> THEN item.id
    ELSE <<>>

NormalizeItem(item) ==
    [slug |-> Trim(RawKey(item)),
     name |-> IF Prop(item, "name", Undefined) \in {Undefined, ""}
              THEN "Unknown Library" ELSE item.name,
     isConsortium |-> Prop(item, "isConsortium", FALSE),
     status |-> Prop(item, "status", Undefined)]

\* the filter of line 90 without its status test
KeepAnyStatus(r) == r.slug # <<>>

\* the filter of line 90 without its slug test
KeepAnySlug(r) == r.status = "Live"

\* the filter of line 90
KeepRecord(r) == r.slug # <<>> /\ r.status = "Live"

Normalize(allItems) ==
    SelectSeq([i \in 1..Len(allItems) |-> NormalizeItem(allItems[i])], KeepRecord)

\* list.map(l => l.slug)
SlugsOf(list) == [i \in 1..Len(list) |-> list[i].slug]

(***************************************************************************)
(* loadLibrarySlugs (lines 97-148).  disk holds the static datasets:       *)
(* detailed and simple are lists of [slug, status], legacy is the list of  *)
(* the URLs of the name-to-URL mapping.                                    *)
(***************************************************************************)
IsLive(lib) == lib.status = "Live"

\* loadLibrarySlugs passing over a source that yields no tenant
LoadFirstNonEmpty(dynamic, cacheFile, disk) ==
    LET live(file) == SlugsOf(SelectSeq(file.val, IsLive))
    IN  IF dynamic /\ Readable(cacheFile) /\ cacheFile.val # <<>>
        THEN SlugsOf(cacheFile.val)
        ELSE IF Readable(disk.detailed) /\ live(disk.detailed) # <<>>
        THEN live(disk.detailed)
        ELSE IF Readable(disk.simple) /\ live(disk.simple) # <<>>
        THEN live(disk.simple)
        ELSE IF Readable(disk.legacy)
        THEN [i \in 1..Len(disk.legacy.val) |-> StripSuffix(disk.legacy.val[i])]
        ELSE <<>>

LoadLibrarySlugs(dynamic, cacheFile, disk) ==
    IF dynamic /\ Readable(cacheFile) THEN SlugsOf(cacheFile.val)
    ELSE IF Readable(disk.detailed) THEN SlugsOf(SelectSeq(disk.detailed.val, IsLive))
    ELSE IF Readable(disk.simple) THEN SlugsOf(SelectSeq(disk.simple.val, IsLive))
    ELSE IF Readable(disk.legacy)
         THEN [i \in 1..Len(disk.legacy.val) |-> StripSuffix(disk.legacy.val[i])]
    ELSE <<>>

\* whether loadLibrarySlugs reads the cache file (line 101)
LoaderReadsCache(dynamic, cacheFile) == dynamic /\ cacheFile.exists

(***************************************************************************)
(* searchLibraries: ordering and truncation of the tenant list             *)
(* (lines 348-357).  maxLibs = 0 stands for null (both are falsy).         *)
(***************************************************************************)
\* the comparator of lines 350-354 with its sign the wrong way round
FavoritesLast(slugs, favorites) ==
    LET Cmp(a, b) == Bit(a \in favorites) - Bit(b \in favorites)
    IN  StableSort(slugs, Cmp)

FavoritesFirst(slugs, favorites) ==
    LET Cmp(a, b) == Bit(b \in favorites) - Bit(a \in favorites)
    IN  StableSort(slugs, Cmp)

Min(a, b) == IF a < b THEN a ELSE b
Max(a, b) == IF a > b THEN a ELSE b

\* line 357 with the limit ignored
KeepAll(libraries, maxLibs) == libraries

Truncate(libraries, maxLibs) ==
    IF maxLibs # 0 THEN SubSeq(libraries, 1, Min(maxLibs, Len(libraries)))
    ELSE libraries

(***************************************************************************)
(* searchLibraries: the hits of one response (lines 385-402) and the       *)
(* aggregation (lines 418-433).                                            *)
(***************************************************************************)
\* a book the loop body can turn into a hit: book.type.id exists
WellFormed(book) == "type" \in DOMAIN book

MakeHit(library, book) ==
    [library |-> library,
     title |-> book.title,
     format |-> book.type,
     available |-> book.isAvailable,
     estimatedWaitDays |-> book.estimatedWaitDays]

\* the hits pushed before the loop of line 388 ends or throws
RECURSIVE HitsOf(_, _)
HitsOf(library, items) ==
    IF items = <<>> \/ ~WellFormed(Head(items)) THEN <<>>
    ELSE <<MakeHit(library, Head(items))>> \o HitsOf(library, Tail(items))

\* the comparator of lines 419-423 with line 420 the wrong way round
CompareUnavailableFirst(a, b) ==
    IF a.available # b.available THEN Bit(a.available) - Bit(b.available)
    ELSE IF ~a.available /\ ~b.available THEN a.estimatedWaitDays - b.estimatedWaitDays
    ELSE 0

\* the comparator of lines 419-423
CompareHits(a, b) ==
    IF a.available # b.available THEN Bit(b.available) - Bit(a.available)
    ELSE IF ~a.available /\ ~b.available THEN a.estimatedWaitDays - b.estimatedWaitDays
    ELSE 0

\* a sort of lines 419-423 that puts hits of equal rank in reverse order
SortHitsTiesReversed(results) ==
    StableSort([i \in 1..Len(results) |-> results[Len(results) + 1 - i]], CompareHits)

SortHits(results) == StableSort(results, CompareHits)

\* the key of line 427 with the casing of the title folded
GroupKeyFolded(hit) ==
    (IF hit.title = "dune" THEN "Dune" ELSE hit.title) \o "-" \o hit.format

GroupKey(hit) == hit.title \o "-" \o hit.format

\* the reduce of lines 426-431 putting each new group before the others
RECURSIVE GroupHitsNewestFirst(_, _)
GroupHitsNewestFirst(acc, hits) ==
    IF hits = <<>> THEN acc
    ELSE LET curr == Head(hits)
             key == GroupKey(curr)
             at == {i \in 1..Len(acc) : acc[i].key = key}
         IN  IF at = {}
             THEN GroupHitsNewestFirst(<<[key |-> key, hits |-> <<curr>>]>> \o acc,
                                       Tail(hits))
             ELSE LET i == CHOOSE j \in at : TRUE
                  IN  GroupHitsNewestFirst([acc EXCEPT ![i].hits = Append(@, curr)],
                                           Tail(hits))

\* the reduce of lines 426-431: groups in order of first appearance of their key
RECURSIVE GroupHits(_, _)
GroupHits(acc, hits) ==
    IF hits = <<>> THEN acc
    ELSE LET curr == Head(hits)
             key == GroupKey(curr)
             at == {i \in 1..Len(acc) : acc[i].key = key}
         IN  IF at = {}
             THEN GroupHits(Append(acc, [key |-> key, hits |-> <<curr>>]), Tail(hits))
             ELSE LET i == CHOOSE j \in at : TRUE
                  IN  GroupHits([acc EXCEPT ![i].hits = Append(@, curr)], Tail(hits))

Aggregate(results) == GroupHits(<<>>, SortHits(results))

(***************************************************************************)
(* The rate limiter (lines 11-14): a fixed window per key.  A consume in   *)
(* a running window adds to its count and leaves its expiry alone; a       *)
(* consume with no running window opens one of Duration seconds.  The      *)
(* consume is rejected when the count exceeds Points, with msBeforeNext    *)
(* the time left in the window.                                            *)
(***************************************************************************)
\* the limiter after a consume(1); the count saturates above Points
Consumed(rl) ==
    IF rl.left > 0
    THEN [count |-> Min(rl.count + 1, Points + 1), left |-> rl.left]
    ELSE [count |-> 1, left |-> Duration]

\* the limiter rejecting one consume too late
GrantedOneMore(rl) == rl.count <= Points + 1

Granted(rl) == rl.count <= Points

\* the limiter after d seconds
Aged(rl, d) == [rl EXCEPT !.left = Max(0, rl.left - d)]


(***************************************************************************)
(* The environment: what the index endpoint and the media endpoints can    *)
(* answer, and what the working directory can hold.                        *)
(***************************************************************************)
\* Retry-After: absent (headers.get gives null), "1", and a value parseInt rejects
RetryHeaders == {<<>>, <<"1">>, <<"s", "o", "o", "n">>}

ItemA ==
    [preferredKey |-> <<"a">>, id |-> <<"7">>, name |-> "A",
     isConsortium |-> TRUE, status |-> "Live"]
ItemB == [id |-> <<Space, "b">>, status |-> "Live"]
ItemBlank == [preferredKey |-> <<Space>>, id |-> <<"c">>, name |-> "", status |-> "Live"]
ItemClosed == [preferredKey |-> <<"c">>, name |-> "C", status |-> "Closed"]
ItemNoStatus == [preferredKey |-> <<"c">>, name |-> "C"]

PageBodies == {<<>>, <<ItemA, ItemBlank>>, <<ItemB, ItemClosed, ItemNoStatus>>}

Book1 == [title |-> "Dune", type |-> "ebook", isAvailable |-> TRUE, estimatedWaitDays |-> 0]
Book2 == [title |-> "Dune", type |-> "ebook", isAvailable |-> FALSE, estimatedWaitDays |-> 14]
BadBook == [title |-> "Dune", isAvailable |-> FALSE, estimatedWaitDays |-> 3]

SearchBodies == {<<>>, <<Book1>>, <<Book2, BadBook>>}

\* a response: net = FALSE when fetch rejects; next is the page of data.links.next
\* relative to the page asked for ("none" when there is no next link)
Response(net, status, retry, parses, items, next) ==
    [net |-> net, status |-> status, retry |-> retry, parses |-> parses,
     items |-> items, next |-> next]

NoResponse == Response(FALSE, 0, <<>>, FALSE, <<>>, "none")

IndexResponses ==
    {NoResponse, Response(TRUE, 500, <<>>, TRUE, <<>>, "none"),
     Response(TRUE, 200, <<>>, FALSE, <<>>, "none"),
     Response(TRUE, 200, <<>>, TRUE, <<>>, "none")}
    \cup {Response(TRUE, 429, h, TRUE, <<>>, "none") : h \in RetryHeaders}
    \cup {Response(TRUE, 200, <<>>, TRUE, b, n) :
            b \in PageBodies \ {<<>>}, n \in {"none", "succ", "same"}}

SearchResponses ==
    {NoResponse, Response(TRUE, 200, <<>>, FALSE, <<>>, "none"),
     Response(TRUE, 500, <<>>, TRUE, <<Book1>>, "none")}
    \cup {Response(TRUE, 429, h, TRUE, <<>>, "none") : h \in RetryHeaders}
    \cup {Response(TRUE, 200, <<>>, TRUE, b, "none") : b \in SearchBodies}

\* seconds a request may take, and seconds a timer may fire late
Latencies == {0, Duration}
Jitter == {0, 1}

Lib(slug, status) == [slug |-> <<slug>>, status |-> status]

DiskOf(detailed, simple, legacy, favorites) ==
    [detailed |-> detailed, simple |-> simple, legacy |-> legacy,
     favorites |-> favorites]

ListFile(list) == [exists |-> TRUE, parses |-> TRUE, val |-> list]

Disks ==
    {DiskOf(NoFile, NoFile, NoFile, {}),
     DiskOf(ListFile(<<Lib("a", "Live"), Lib("b", "Live"), Lib("c", "Live")>>),
            NoFile, NoFile, {}),
     DiskOf(BadFile, ListFile(<<Lib("a", "Live"), Lib("d", "Closed"), Lib("c", "Live")>>),
            NoFile, {<<"c">>}),
     DiskOf(ListFile(<<Lib("d", "Closed")>>), ListFile(<<Lib("a", "Live")>>),
            NoFile, {}),
     DiskOf(NoFile, BadFile, ListFile(<<<<"a", Suffix>>, <<"b", Suffix>>>>),
            {<<"b">>})}

MaxLibsOptions == {0, 1, 2}


(***************************************************************************)
(* The state.                                                              *)
(***************************************************************************)
VARIABLES
    pc,              \* where the single control flow stands
    op,              \* the running (or last) top-level call and its arguments
    cache,           \* the file LIB_CACHE
    disk,            \* the static datasets and the preferences
    rl,              \* the rate limiter: count and seconds left of its window
    caller,          \* who called fetchAllLibrariesFromAPI: "top" or "search"
    allItems,        \* fetchAllLibrariesFromAPI: the raw items accumulated
    currentPage,     \* fetchAllLibrariesFromAPI: the page asked for next
    wait,            \* the delay of the pending setTimeout
    slugs,           \* searchLibraries: the resolved list, before the sort
    searchLibraries, \* searchLibraries: the const of line 357
    idx,             \* searchLibraries: position of the for loop
    results,         \* searchLibraries: the hits collected
    outcome,         \* "running", "returned", "NoLibraries" or "TypeError"
    retDir,          \* what the latest completed discovery returned
    retGroups,       \* what the search returned
    \* history of the running call, reset when a top-level call starts
    prevDir,         \* retDir when the call started
    cache0,          \* cache when the call started
    idxReqs,         \* index page requests issued
    consumes,        \* rateLimiter.consume calls
    reads,           \* reads of LIB_CACHE
    writes,          \* writes of LIB_CACHE
    trace,           \* per loop iteration: the tenant and what happened
    pause,           \* seconds the latest 429 sleep took
    lastPage,        \* the latest answer of the index endpoint, if any
    pages,           \* pages pushed into allItems
    discovers,       \* invocations of fetchAllLibrariesFromAPI
    reqAges,         \* seconds since each of the last Points requests (capped)
    reqGap           \* at the latest request: seconds since the Points-th before it

vars ==
    <<pc, op, cache, disk, rl, caller, allItems, currentPage, wait, slugs,
      searchLibraries, idx, results, outcome, retDir, retGroups, prevDir, cache0,
      idxReqs, consumes, reads, writes, trace, pause, lastPage, pages, discovers,
      reqAges, reqGap>>

hvars == <<lastPage, pages, discovers>>
dvars == <<caller, allItems, currentPage>>
svars == <<slugs, searchLibraries, idx, results, trace, retGroups>>

NoDir == [has |-> FALSE, val |-> <<>>]
NoAnswer == [has |-> FALSE, resp |-> NoResponse]
Answer(r) == [has |-> TRUE, resp |-> r]
Dir(list) == [has |-> TRUE, val |-> list]

Init ==
    /\ pc = "idle"
    /\ op = [name |-> "none", refresh |-> FALSE, dynamic |-> FALSE, maxLibs |-> 0]
    /\ cache \in {NoFile, BadFile}
    /\ disk = DiskOf(NoFile, NoFile, NoFile, {})
    /\ rl = [count |-> 0, left |-> 0]
    /\ caller = "top"
    /\ allItems = <<>>
    /\ currentPage = 1
    /\ wait = 0
    /\ slugs = <<>>
    /\ searchLibraries = <<>>
    /\ idx = 0
    /\ results = <<>>
    /\ outcome = "returned"
    /\ retDir = NoDir
    /\ retGroups = <<>>
    /\ prevDir = NoDir
    /\ cache0 = cache
    /\ idxReqs = 0
    /\ consumes = 0
    /\ reads = 0
    /\ writes = 0
    /\ trace = <<>>
    /\ pause = 0
    /\ lastPage = NoAnswer
    /\ pages = 0
    /\ discovers = 0
    /\ reqAges = <<>>
    /\ reqGap = Duration

(***************************************************************************)
(* Time and the limiter.                                                   *)
(***************************************************************************)
\* d seconds pass
Elapse(d) ==
    /\ rl' = Aged(rl, d)
    /\ reqAges' = [i \in 1..Len(reqAges) |-> Min(Duration, reqAges[i] + d)]
    /\ UNCHANGED reqGap

\* await rateLimiter.consume(1), which makes the count of consumes n
ConsumeCounted(n) ==
    /\ rl' = Consumed(rl)
    /\ consumes' = n

Consume == ConsumeCounted(consumes + 1)

\* fetch(url) is called: the request leaves
Issue ==
    /\ reqGap' = IF Len(reqAges) = Points THEN Head(reqAges) ELSE Duration
    /\ reqAges' = Append(IF Len(reqAges) = Points THEN Tail(reqAges) ELSE reqAges, 0)

\* parseInt(headers.get('retry-after') || '5')
RetryAfter(r) == ParseInt(IF r.retry # <<>> THEN r.retry ELSE <<"5">>)

\* seconds until setTimeout(f, n * 1000) may fire; a NaN delay is no delay
SleepSeconds(n) == IF n = NaN THEN 0 ELSE n

(***************************************************************************)
(* searchLibraries, lines 342-363 and the end of the pass, 418-433.        *)
(***************************************************************************)
\* the async function settles
Settle(o) ==
    /\ pc' = "done"
    /\ outcome' = o

\* line 342 with the test never true
NeverNoLibraries(sl) == Len(sl) < 0

\* line 342
NoLibraries(sl) == Len(sl) = 0

\* the for loop moves to position i, or ends and the function returns
LoopTo(list, i, hits) ==
    IF i <= Len(list)
    THEN /\ pc' = "s_consume"
         /\ outcome' = "running"
         /\ idx' = i
         /\ retGroups' = <<>>
    ELSE /\ Settle("returned")
         /\ idx' = i
         /\ retGroups' = Aggregate(hits)

\* lines 342-363, with sl the slugs of line 335 or 339
BeginPass(sl, maxLibs, favorites) ==
    /\ slugs' = sl
    /\ results' = <<>>
    /\ trace' = <<>>
    /\ IF NoLibraries(sl)
       THEN /\ Settle("NoLibraries")
            /\ searchLibraries' = <<>>
            /\ idx' = 0
            /\ retGroups' = <<>>
       ELSE /\ searchLibraries' = Truncate(FavoritesFirst(sl, favorites), maxLibs)
            /\ LoopTo(searchLibraries', 1, <<>>)

(***************************************************************************)
(* fetchAllLibrariesFromAPI.                                               *)
(***************************************************************************)
\* line 17 with the refresh flag taken the wrong way round
UseCacheOnRefresh(refresh, file) == refresh /\ Readable(file)

\* line 17, with the try of lines 18-22
UseCache(refresh, file) == ~refresh /\ Readable(file)

\* no search is running: its locals hold nothing
ResetSearch ==
    /\ slugs' = <<>>
    /\ searchLibraries' = <<>>
    /\ idx' = 0
    /\ results' = <<>>
    /\ trace' = <<>>
    /\ retGroups' = <<>>

\* the function returns list to its caller, which goes on
ReturnDir(list, from) ==
    /\ retDir' = Dir(list)
    /\ IF from = "top"
       THEN /\ Settle("returned")
            /\ ResetSearch
       ELSE BeginPass(SlugsOf(list), op'.maxLibs, disk'.favorites)

\* lines 17-31: the cached list is returned, or the page loop starts
StartDiscover(refresh, from) ==
    /\ caller' = from
    /\ discovers' = discovers + 1
    /\ allItems' = <<>>
    /\ currentPage' = 1
    /\ IF UseCache(refresh, cache)
       THEN /\ ReturnDir(cache.val, from)
            /\ UNCHANGED cache
       ELSE /\ pc' = "d_consume"
            /\ outcome' = "running"
            /\ ResetSearch
            /\ UNCHANGED <<cache, retDir>>

\* lines 82-94 adding the new records to those of the cache file
FinishMerging(items) ==
    LET normalized == Normalize(items)
    IN  /\ cache' = JsonFile(cache.val \o normalized)
        /\ writes' = writes + 1
        /\ ReturnDir(normalized, caller)

\* lines 82-94
FinishDiscover(items) ==
    LET normalized == Normalize(items)
    IN  /\ cache' = JsonFile(normalized)
        /\ writes' = writes + 1
        /\ ReturnDir(normalized, caller)


(***************************************************************************)
(* The top-level calls.                                                    *)
(***************************************************************************)
\* the history of the call starts over
StartCall(nreads) ==
    /\ prevDir' = retDir
    /\ cache0' = cache
    /\ idxReqs' = 0
    /\ consumes' = 0
    /\ reads' = nreads
    /\ writes' = 0
    /\ pause' = 0
    /\ lastPage' = NoAnswer
    /\ pages' = 0
    /\ wait' = 0

\* fetchAllLibrariesFromAPI({ refresh }), lines 16-31
CallDiscover(refresh) ==
    /\ pc = "idle"
    /\ op' = [name |-> "discover", refresh |-> refresh, dynamic |-> FALSE, maxLibs |-> 0]
    /\ UNCHANGED <<disk, rl, reqAges, reqGap>>
    /\ StartCall(Bit(~refresh /\ cache.exists))
    /\ StartDiscover(refresh, "top")

\* line 336 without its test of dynamic
BootstrapWithoutDynamic(sl, dynamic) == sl = <<>>

\* line 336 with its test always true
BootstrapAlways(sl, dynamic) == TRUE

\* line 336
NeedsBootstrap(sl, dynamic) == sl = <<>> /\ dynamic

\* searchLibraries(title, author, { maxLibs, dynamic }), lines 331-363, in the
\* working directory d
CallSearch(maxLibs, dynamic, d) ==
    /\ pc = "idle"
    /\ op' = [name |-> "search", refresh |-> FALSE, dynamic |-> dynamic, maxLibs |-> maxLibs]
    /\ disk' = d
    /\ UNCHANGED <<rl, reqAges, reqGap>>
    /\ LET sl == LoadLibrarySlugs(dynamic, cache, d)
       IN  IF NeedsBootstrap(sl, dynamic)
           THEN /\ StartCall(Bit(LoaderReadsCache(dynamic, cache)) + Bit(cache.exists))
                /\ StartDiscover(FALSE, "search")
           ELSE /\ StartCall(Bit(LoaderReadsCache(dynamic, cache)))
                /\ BeginPass(sl, maxLibs, d.favorites)
                /\ UNCHANGED <<cache, retDir, dvars, discovers>>

\* the caller has taken the settled result: the locals of the call are gone,
\* the cache file and the limiter stay as they are
Handover ==
    /\ pc = "done"
    /\ pc' = "idle"
    /\ op' = [name |-> "none", refresh |-> FALSE, dynamic |-> FALSE, maxLibs |-> 0]
    /\ caller' = "top"
    /\ allItems' = <<>>
    /\ currentPage' = 1
    /\ ResetSearch
    /\ outcome' = "returned"
    /\ prevDir' = NoDir
    /\ cache0' = cache
    /\ idxReqs' = 0
    /\ consumes' = 0
    /\ reads' = 0
    /\ writes' = 0
    /\ pause' = 0
    /\ lastPage' = NoAnswer
    /\ pages' = 0
    /\ discovers' = 0
    /\ reqGap' = Duration
    /\ UNCHANGED <<cache, disk, rl, wait, retDir, reqAges>>

\* the process idles for a second between two calls
Idle ==
    /\ pc = "idle"
    /\ Elapse(1)
    /\ UNCHANGED <<pc, op, cache, disk, dvars, wait, svars, outcome, retDir,
                   prevDir, cache0, idxReqs, consumes, reads, writes, pause, hvars>>

(***************************************************************************)
(* The page loop of fetchAllLibrariesFromAPI, lines 33-80.                 *)
(***************************************************************************)
\* lines 34-47: the permit, then the request; or the rejection of line 36.
\* The step makes the count of consumes cons and, when the request leaves, the
\* count of index requests reqs.
DConsumeCounted(reqs, cons) ==
    /\ pc = "d_consume"
    /\ ConsumeCounted(cons)
    /\ IF Granted(rl')
       THEN /\ Issue
            /\ idxReqs' = reqs
            /\ pc' = "d_await"
            /\ wait' = 0
       ELSE /\ pc' = "d_rlwait"
            /\ wait' = rl'.left
            /\ UNCHANGED <<idxReqs, reqAges, reqGap>>
    /\ UNCHANGED <<op, cache, disk, dvars, svars, outcome, retDir, prevDir, cache0,
                   reads, writes, pause, hvars>>

\* the step while the discovery has issued fewer than bound requests
DConsumeWithin(bound) ==
    /\ idxReqs < bound
    /\ DConsumeCounted(idxReqs + 1, consumes + 1)

DConsume == DConsumeWithin(MaxIdxReqs)

\* lines 38-39: the sleep of msBeforeNext, then the loop again
DRlWait ==
    /\ pc = "d_rlwait"
    /\ Elapse(wait)
    /\ pc' = "d_consume"
    /\ wait' = 0
    /\ UNCHANGED <<op, cache, disk, dvars, svars, outcome, retDir, prevDir, cache0,
                   idxReqs, consumes, reads, writes, pause, hvars>>

\* the page data.links.next.page names
NextPage(r, page) == IF r.next = "succ" THEN page + 1 ELSE page

\* line 69
HasNext(r, page) == r.next # "none" /\ page < PageCap

\* res.ok
Ok(r) == r.status >= 200 /\ r.status <= 299

\* the loop of lines 33-80 with a catch that goes on instead of breaking
PageStepCatchGoesOn(r, page) ==
    IF r.net /\ r.status = 429 THEN "again"
    ELSE IF ~(r.net /\ Ok(r) /\ r.parses) THEN "next"
    ELSE IF r.items # <<>> /\ HasNext(r, page) THEN "next"
    ELSE "break"

\* What the loop of lines 33-80 does with the answer r to the request for page:
\* "again" is the continue of line 53, "next" the assignment of line 70, "break"
\* the breaks of lines 63, 72 and 78 (the catch of line 75 takes a rejected
\* fetch, the throw of line 57 and a rejected res.json()).
PageStep(r, page) ==
    IF r.net /\ r.status = 429 THEN "again"
    ELSE IF ~(r.net /\ Ok(r) /\ r.parses) THEN "break"
    ELSE IF r.items # <<>> /\ HasNext(r, page) THEN "next"
    ELSE "break"

\* lines 45-79: the answer r arrives after lat seconds
DResponse(r, lat) ==
    /\ pc = "d_await"
    /\ Elapse(lat)
    /\ lastPage' = Answer(r)
    /\ UNCHANGED <<op, disk, prevDir, cache0, idxReqs, consumes, reads, pause,
                   discovers>>
    /\ LET step == PageStep(r, currentPage)
           fetched == r.net /\ r.status # 429 /\ Ok(r) /\ r.parses
       IN  /\ allItems' = IF fetched THEN allItems \o r.items ELSE allItems
           /\ pages' = IF fetched /\ r.items # <<>> THEN pages + 1 ELSE pages
           /\ IF step = "again"
              THEN /\ pc' = "d_sleep429"
                   /\ wait' = RetryAfter(r)
                   /\ UNCHANGED <<cache, caller, currentPage, svars, outcome, retDir,
                                  writes>>
              ELSE IF step = "next"
              THEN /\ currentPage' = NextPage(r, currentPage)
                   /\ pc' = "d_consume"
                   /\ UNCHANGED <<cache, caller, wait, svars, outcome, retDir, writes>>
              ELSE /\ FinishDiscover(allItems')
                   /\ UNCHANGED <<caller, currentPage, wait>>

\* lines 52-53: the sleep of the Retry-After hint, then the loop again
DSleep429(late) ==
    /\ pc = "d_sleep429"
    /\ Elapse(SleepSeconds(wait) + late)
    /\ pause' = SleepSeconds(wait) + late
    /\ pc' = "d_consume"
    /\ wait' = 0
    /\ UNCHANGED <<op, cache, disk, dvars, svars, outcome, retDir, prevDir, cache0,
                   idxReqs, consumes, reads, writes, hvars>>


(***************************************************************************)
(* The tenant loop of searchLibraries, lines 365-416.                      *)
(***************************************************************************)
\* the for loop of line 365 walking the list from its end
libraryFromEnd == searchLibraries[Len(searchLibraries) + 1 - idx]

\* the loop variable of line 365
library == searchLibraries[idx]

\* what one loop iteration leaves in trace
Visit(lib, denied, r) == [library |-> lib, denied |-> denied, resp |-> r]

\* the catch of lines 403-415 letting every error but the limiter's escape
CatchOnlyLimiter(thrown) ==
    CASE thrown = "limiter" -> "sleep"
      [] OTHER -> "raise"

\* The catch of lines 403-415, by what was thrown: "api429" is the error of
\* line 382, "limiter" the rejection of consume, "other" anything else.  On
\* "api429" line 407 calls searchLibraries, which in this scope is the const
\* of line 357, an array: the call throws a TypeError out of the function.
CatchDisposition(thrown) ==
    CASE thrown = "api429" -> "raise"
      [] thrown = "limiter" -> "sleep"
      [] OTHER -> "next"

\* lines 366-376: the permit, then the request; or the rejection, caught at 403
SConsume ==
    /\ pc = "s_consume"
    /\ Consume
    /\ IF Granted(rl')
       THEN /\ Issue
            /\ pc' = "s_await"
            /\ wait' = 0
       ELSE /\ pc' = IF CatchDisposition("limiter") = "sleep" THEN "s_rlwait" ELSE "s_await"
            /\ wait' = rl'.left
            /\ UNCHANGED <<reqAges, reqGap>>
    /\ UNCHANGED <<op, cache, disk, dvars, svars, outcome, retDir, prevDir, cache0,
                   idxReqs, reads, writes, pause, hvars>>

\* lines 411-412: the sleep of msBeforeNext, then the next tenant
SRlWait ==
    /\ pc = "s_rlwait"
    /\ Elapse(wait)
    /\ wait' = 0
    /\ trace' = Append(trace, Visit(library, TRUE, NoResponse))
    /\ LoopTo(searchLibraries, idx + 1, results)
    /\ UNCHANGED <<op, cache, disk, dvars, slugs, searchLibraries, results, retDir,
                   prevDir, cache0, idxReqs, consumes, reads, writes, pause, hvars>>

\* lines 385-402: what the answer r adds to results before the body ends or throws
Pushed(lib, r) ==
    IF r.net /\ r.parses THEN HitsOf(lib, r.items) ELSE <<>>

\* lines 376-402 throw: fetch rejects, response.json() rejects, or book.type is
\* missing in an item
Throws(r) ==
    \/ ~r.net
    \/ ~r.parses
    \/ \E i \in 1..Len(r.items) : ~WellFormed(r.items[i])

\* lines 376-415: the answer r arrives after lat seconds
SResponse(r, lat) ==
    /\ pc = "s_await"
    /\ Elapse(lat)
    /\ UNCHANGED <<op, cache, disk, dvars, slugs, searchLibraries, retDir, prevDir,
                   cache0, idxReqs, consumes, reads, writes, pause, hvars>>
    /\ IF r.net /\ r.status = 429
       THEN /\ pc' = "s_sleep429"
            /\ wait' = RetryAfter(r)
            /\ trace' = Append(trace, Visit(library, FALSE, r))
            /\ UNCHANGED <<idx, results, retGroups, outcome>>
       ELSE /\ results' = results \o Pushed(library, r)
            /\ trace' = Append(trace, Visit(library, FALSE, r))
            /\ wait' = 0
            /\ IF Throws(r) /\ CatchDisposition("other") # "next"
               THEN /\ Settle("Error")
                    /\ UNCHANGED <<idx, retGroups>>
               ELSE LoopTo(searchLibraries, idx + 1, results')

\* lines 381-382 and 404-407: the sleep of the Retry-After hint, the throw and
\* its catch
SSleep429(late) ==
    /\ pc = "s_sleep429"
    /\ Elapse(SleepSeconds(wait) + late)
    /\ pause' = SleepSeconds(wait) + late
    /\ wait' = 0
    /\ IF CatchDisposition("api429") = "raise"
       THEN /\ Settle("TypeError")
            /\ UNCHANGED <<idx, retGroups>>
       ELSE LoopTo(searchLibraries, idx + 1, results)
    /\ UNCHANGED <<op, cache, disk, dvars, slugs, searchLibraries, results, trace,
                   retDir, prevDir, cache0, idxReqs, consumes, reads, writes, hvars>>

(***************************************************************************)
(* The specification.                                                      *)
(***************************************************************************)
Next ==
    \/ \E refresh \in BOOLEAN : CallDiscover(refresh)
    \/ \E maxLibs \in MaxLibsOptions, dynamic \in BOOLEAN, d \in Disks :
          CallSearch(maxLibs, dynamic, d)
    \/ Handover
    \/ Idle
    \/ DConsume
    \/ DRlWait
    \/ \E r \in IndexResponses, lat \in Latencies : DResponse(r, lat)
    \/ \E late \in Jitter : DSleep429(late)
    \/ SConsume
    \/ SRlWait
    \/ \E r \in SearchResponses, lat \in Latencies : SResponse(r, lat)
    \/ \E late \in Jitter : SSleep429(late)

Spec == Init /\ [][Next]_vars

(***************************************************************************)
(* Forced discoveries against an index endpoint that answers every request *)
(* with a page of tenants, with or without a next link.                    *)
(***************************************************************************)
PagedResponses ==
    {Response(TRUE, 200, <<>>, TRUE, <<ItemA, ItemBlank>>, n) :
        n \in {"none", "succ", "same"}}

DConsumeMany == DConsumeWithin(MaxPageReqs)

NextPages ==
    \/ CallDiscover(TRUE)
    \/ Handover
    \/ DConsumeMany
    \/ DRlWait
    \/ \E r \in PagedResponses, lat \in Latencies : DResponse(r, lat)

SpecPages == Init /\ [][NextPages]_vars

(***************************************************************************)
(* Discoveries that may go on for ever: the counts of requests and of      *)
(* consumes stop at MaxIdxReqs instead of stopping the loop.  The index    *)
(* endpoint answers with an error, a 429, or a last page.  Every request   *)
(* is answered in the end and every sleep ends.                            *)
(***************************************************************************)
LastResponses == {r \in IndexResponses : r.next = "none"}

DConsumeOn ==
    DConsumeCounted(Min(idxReqs + 1, MaxIdxReqs), Min(consumes + 1, MaxIdxReqs))

DAnswered == \E r \in LastResponses, lat \in Latencies : DResponse(r, lat)

DSlept == \E late \in Jitter : DSleep429(late)

NextLive ==
    \/ \E refresh \in BOOLEAN : CallDiscover(refresh)
    \/ Handover
    \/ DConsumeOn
    \/ DRlWait
    \/ DAnswered
    \/ DSlept

SpecLive ==
    /\ Init
    /\ [][NextLive]_vars
    /\ WF_vars(DConsumeOn)
    /\ WF_vars(DRlWait)
    /\ WF_vars(DAnswered)
    /\ WF_vars(DSlept)


(***************************************************************************)
(* The pure parts of searchLibraries and loadLibrarySlugs, each applied to *)
(* inputs drawn from a bounded set.                                        *)
(***************************************************************************)
\* nothing runs and nothing has run; position p, call o, cache file c, working
\* directory d, tenant list sl and hits hs are in place
Parked(p, o, c, d, sl, hs) ==
    /\ pc = p
    /\ op = o
    /\ cache = c
    /\ disk = d
    /\ rl = [count |-> 0, left |-> 0]
    /\ caller = "top"
    /\ allItems = <<>>
    /\ currentPage = 1
    /\ wait = 0
    /\ slugs = sl
    /\ searchLibraries = <<>>
    /\ idx = 0
    /\ results = hs
    /\ outcome = "running"
    /\ retDir = NoDir
    /\ retGroups = <<>>
    /\ prevDir = NoDir
    /\ cache0 = c
    /\ idxReqs = 0
    /\ consumes = 0
    /\ reads = 0
    /\ writes = 0
    /\ trace = <<>>
    /\ pause = 0
    /\ lastPage = NoAnswer
    /\ pages = 0
    /\ discovers = 0
    /\ reqAges = <<>>
    /\ reqGap = Duration

\* the variables a pure step leaves alone
ParkedVars ==
    <<op, cache, disk, rl, dvars, wait, idx, outcome, retDir, prevDir, cache0,
      idxReqs, consumes, reads, writes, trace, pause, hvars, reqAges, reqGap>>

SearchOp(maxLibs, dynamic) ==
    [name |-> "search", refresh |-> FALSE, dynamic |-> dynamic, maxLibs |-> maxLibs]

\* sequences over S of length at most n
SeqsUpTo(S, n) == UNION {[1..k -> S] : k \in 0..n}

Tenants == {<<"a">>, <<"b">>, <<"c">>, <<"d">>}

\* lines 348-357 on a tenant list and a favorite set
InitOrder ==
    \E sl \in SeqsUpTo(Tenants, MaxTenants), favorites \in SUBSET Tenants,
       maxLibs \in MaxLibsOptions :
        Parked("order", SearchOp(maxLibs, TRUE), NoFile,
               DiskOf(NoFile, NoFile, NoFile, favorites), sl, <<>>)

Order ==
    /\ pc = "order"
    /\ pc' = "ordered"
    /\ searchLibraries' = Truncate(FavoritesFirst(slugs, disk.favorites), op.maxLibs)
    /\ UNCHANGED <<ParkedVars, slugs, results, retGroups>>

SpecOrder == InitOrder /\ [][Order]_vars

\* what the cache file and the static datasets can be: absent, unparsable,
\* without a tenant to give, with one
CacheFiles ==
    {NoFile, BadFile, JsonFile(<<>>),
     JsonFile(Normalize(<<ItemA, ItemB>>))}
DetailedFiles ==
    {NoFile, BadFile, ListFile(<<Lib("d", "Closed")>>),
     ListFile(<<Lib("d", "Closed"), Lib("b", "Live"), Lib("c", "Live")>>)}
SimpleFiles ==
    {NoFile, BadFile, ListFile(<<Lib("d", "Closed")>>),
     ListFile(<<Lib("c", "Live"), Lib("d", "Closed")>>)}
LegacyFiles ==
    {NoFile, BadFile, ListFile(<<>>),
     ListFile(<<<<"d", Suffix>>, <<"a">>>>)}

\* loadLibrarySlugs({ dynamic }) in a working directory
InitLoad ==
    \E dynamic \in BOOLEAN, c \in CacheFiles, detailed \in DetailedFiles,
       simple \in SimpleFiles, legacy \in LegacyFiles :
        Parked("load", SearchOp(0, dynamic), c,
               DiskOf(detailed, simple, legacy, {}), <<>>, <<>>)

Load ==
    /\ pc = "load"
    /\ pc' = "loaded"
    /\ slugs' = LoadLibrarySlugs(op.dynamic, cache, disk)
    /\ UNCHANGED <<ParkedVars, searchLibraries, results, retGroups>>

SpecLoad == InitLoad /\ [][Load]_vars

\* the hits a tenant loop can collect: two tenants, two titles, one of them in
\* two casings, a copy at hand or a wait of 3 or 14 days
Books ==
    {[title |-> t, type |-> "ebook", isAvailable |-> w = 0, estimatedWaitDays |-> w] :
        t \in {"Dune", "dune", "Emma"}, w \in {0, 3, 14}}
Hits == {MakeHit(l, b) : l \in {<<"a">>, <<"b">>}, b \in Books}

\* the favorite sets of the preferences: none, or tenant b
FavoriteSets == {{}, {<<"b">>}}

\* lines 418-433 on a sequence of collected hits
InitAggregate ==
    \E hs \in SeqsUpTo(Hits, MaxHits), favorites \in FavoriteSets :
        Parked("aggregate", SearchOp(0, TRUE), NoFile,
               DiskOf(NoFile, NoFile, NoFile, favorites), <<>>, hs)

AggregateHits ==
    /\ pc = "aggregate"
    /\ pc' = "aggregated"
    /\ retGroups' = Aggregate(results)
    /\ UNCHANGED <<ParkedVars, slugs, searchLibraries, results>>

SpecAggregate == InitAggregate /\ [][AggregateHits]_vars

(***************************************************************************)
(* Observations of a state, used by the properties below.                  *)
(***************************************************************************)
SearchDone == pc = "done" /\ op.name = "search"
DiscoverDone == pc = "done" /\ op.name = "discover"

Is429(v) == ~v.denied /\ v.resp.net /\ v.resp.status = 429
IsNetError(v) == ~v.denied /\ ~v.resp.net

\* the hits in the groups of a GroupedResult
GroupedHits(groups) ==
    UNION {{groups[g].hits[k] : k \in 1..Len(groups[g].hits)} : g \in 1..Len(groups)}

\* the hits the answer of visit v carries
HitsAnswered(v) ==
    IF v.denied \/ Is429(v) THEN {}
    ELSE LET h == Pushed(v.library, v.resp) IN {h[k] : k \in 1..Len(h)}

\* every record has a non-empty slug and status Live
ValidDirectory(list) ==
    \A i \in 1..Len(list) :
        /\ list[i].slug # <<>>
        /\ Prop(list[i], "status", Undefined) = "Live"

\* a static dataset of the working directory holds a Live tenant
HoldsLiveTenant(file) ==
    Readable(file) /\ \E i \in 1..Len(file.val) : file.val[i].status = "Live"


(***************************************************************************)
(* The properties.                                                         *)
(***************************************************************************)
\* C1: permit acquisition never denies a tenant: no iteration of the tenant loop
\* ends with its tenant passed over because the limiter had no permit free; the
\* flow waits and then queries that same tenant.
C1_NoTenantDenied ==
    \A i \in 1..Len(trace) : ~trace[i].denied

\* C2: a 429 with Retry-After: 1 on one tenant pauses the flow for at least one
\* second and does not abort the batch: when the invocation has settled, every
\* tenant after the rate-limited one has had its turn.
C2_BatchSurvives429 ==
    SearchDone =>
        \A i \in 1..Len(trace) :
            (Is429(trace[i]) /\ trace[i].resp.retry = <<"1">>) =>
                /\ pause >= 1
                /\ outcome = "returned"
                /\ Len(trace) = Len(searchLibraries)

\* C3: tenant-failure isolation: when a search in which some tenant's request
\* raised a network error (and no tenant answered 429) has settled, it has
\* returned, and the GroupedResult holds the hits of every tenant that answered.
C3_FailureIsolation ==
    (/\ SearchDone
     /\ \E i \in 1..Len(trace) : IsNetError(trace[i])
     /\ \A i \in 1..Len(trace) : ~Is429(trace[i]))
    => /\ outcome = "returned"
       /\ \A i \in 1..Len(trace) : HitsAnswered(trace[i]) \subseteq GroupedHits(retGroups)

\* C3, witness: tenants a, b, c were visited; a and c answered with hits, the
\* request to b raised a network error.
C3_Witness ==
    /\ SearchDone
    /\ Len(trace) = 3
    /\ HitsAnswered(trace[1]) # {}
    /\ IsNetError(trace[2])
    /\ HitsAnswered(trace[3]) # {}
    /\ trace[1].library # trace[3].library

\* C4: with a non-empty resolved tenant list searchLibraries returns a
\* GroupedResult and never raises, whatever the tenants answer; the only failure
\* that reaches the caller is the one for an empty tenant list.
C4_OnlyNoLibrariesPropagates ==
    SearchDone =>
        /\ outcome \in {"returned", "NoLibraries"}
        /\ (slugs # <<>> => outcome = "returned")

\* C5: rate-limiter spacing: each outbound request (index page or tenant search)
\* leaves at least one window after the request Points requests before it; with
\* the configured limiter, any two requests are at least 2 seconds apart.
C5_RequestSpacing ==
    reqGap >= Duration

\* C5, witness: within one invocation an index page request was followed by a
\* tenant search request.
C5_Witness ==
    /\ pc = "s_await"
    /\ idxReqs > 0
    /\ Len(reqAges) = Points

\* C6: when the tenant list is empty after slug resolution and the bootstrap
\* discovery, searchLibraries fails with the no-libraries error and issues no
\* tenant request; a search that returns, even with an empty mapping, had tenants.
C6_NoTenantsAvailable ==
    SearchDone =>
        /\ slugs = <<>> => (outcome = "NoLibraries" /\ trace = <<>>)
        /\ outcome = "NoLibraries" => slugs = <<>>
        /\ outcome = "returned" => slugs # <<>>

\* C6, witness: the bootstrap discovery went to the network, produced no tenant,
\* and the search failed with the no-libraries error.
C6_Witness ==
    /\ SearchDone
    /\ outcome = "NoLibraries"
    /\ idxReqs > 0

\* C7: searchLibraries fails with the no-libraries error only when no source can
\* supply a tenant; in particular not when a static dataset holds a Live tenant.
C7_StaticLiveTenantSuffices ==
    (SearchDone /\ (HoldsLiveTenant(disk.detailed) \/ HoldsLiveTenant(disk.simple)))
    => outcome # "NoLibraries"

\* C8: fetchAllLibrariesFromAPI with refresh = false and a cache file that exists
\* and parses returns at once the cached content unchanged, with no network
\* request, no permit consumed and no write of the cache.
C8_CachedDiscoverIsPure ==
    (op.name = "discover" /\ ~op.refresh /\ Readable(cache0)) =>
        /\ pc = "done"
        /\ outcome = "returned"
        /\ retDir = Dir(cache0.val)
        /\ idxReqs = 0
        /\ consumes = 0
        /\ writes = 0
        /\ cache = cache0

\* C8, witness: a non-forced discover call found a cache holding tenants.
C8_Witness ==
    /\ DiscoverDone
    /\ ~op.refresh
    /\ Readable(cache0)
    /\ cache0.val # <<>>

\* C9: discovery idempotence: once a discover call has completed, a later
\* discover(forceRefresh = false) returns a directory identical to that output
\* and makes no network call.
C9_DiscoverIdempotent ==
    (DiscoverDone /\ ~op.refresh /\ prevDir.has) =>
        /\ retDir = prevDir
        /\ idxReqs = 0

\* C9, witness: a non-forced discover call returned after an earlier discovery
\* had produced a directory with tenants.
C9_Witness ==
    /\ DiscoverDone
    /\ ~op.refresh
    /\ prevDir.has
    /\ prevDir.val # <<>>

\* C10: Live filter: the cache artifact and every directory returned by discover
\* hold only records with a non-empty slug and status Live, whatever raw items
\* the pages carried.
C10_LiveFilter ==
    /\ Readable(cache) => ValidDirectory(cache.val)
    /\ retDir.has => ValidDirectory(retDir.val)

\* C10, witness: a discovery pass that fetched raw items, some of them discarded
\* (blank slug, status not Live), has written the cache and returned tenants.
C10_Witness ==
    /\ pc = "done"
    /\ writes = 1
    /\ retDir.val # <<>>
    /\ Len(allItems) > Len(retDir.val)
    /\ cache = JsonFile(retDir.val)

\* the page loop of fetchAllLibrariesFromAPI is running
InPageLoop == pc \in {"d_consume", "d_rlwait", "d_await", "d_sleep429"}

\* the answer a is a failed page request: fetch rejected, a status other than
\* 429 that is not OK, or a body that does not parse
PageFailed(a) ==
    /\ a.has
    /\ \/ ~a.resp.net
       \/ a.resp.status # 429 /\ (~Ok(a.resp) \/ ~a.resp.parses)

\* C11: when a page request of a discovery fails (network error, non-OK status
\* other than 429, unparsable body), the failing step adds nothing to the
\* accumulated items and issues no request, the page loop is over for the rest
\* of the invocation, and the discovery has returned, without raising, the
\* normalized Live records of the pages accumulated before the failure.
C11_PageFailureTruncates ==
    /\ [](PageFailed(lastPage) =>
            /\ ~InPageLoop
            /\ retDir = Dir(Normalize(allItems))
            /\ caller = "top" => (pc = "done" /\ outcome = "returned"))
    /\ [][(pc = "d_await" /\ PageFailed(lastPage')) =>
            /\ allItems' = allItems
            /\ pages' = pages
            /\ idxReqs' = idxReqs]_vars

\* C11, witness: the second page request of a discovery failed after a first
\* page with tenants had been accumulated, and the discovery returned them.
C11_Witness ==
    /\ DiscoverDone
    /\ PageFailed(lastPage)
    /\ idxReqs = 2
    /\ pages = 1
    /\ retDir.val # <<>>

\* C12: discovery page cap: one discovery pass pushes at most PageCap (10)
\* pages into its accumulated items, whatever next-page pointers the index
\* endpoint supplies.
C12_PageCap ==
    pages <= PageCap

\* C13: favorites-first stable partition: the visiting order (with no limit on
\* the number of tenants) is the favorites of the source list, in the order of
\* the source list, followed by its non-favorites, in the order of the source
\* list; so it is a permutation of the source list, and [a, b, c, d] with
\* favorites {c} becomes [c, a, b, d].
C13_FavoritesFirstStable ==
    (pc = "ordered" /\ op.maxLibs = 0) =>
        LET IsFav(x) == x \in disk.favorites
            NotFav(x) == x \notin disk.favorites
        IN  /\ searchLibraries = SelectSeq(slugs, IsFav) \o SelectSeq(slugs, NotFav)
            /\ (slugs = <<<<"a">>, <<"b">>, <<"c">>, <<"d">>>> /\ disk.favorites = {<<"c">>})
                   => searchLibraries = <<<<"c">>, <<"a">>, <<"b">>, <<"d">>>>

\* C13, witness: [a, b, c, d] with favorites {c} has been ordered.
C13_Witness ==
    /\ pc = "ordered"
    /\ op.maxLibs = 0
    /\ slugs = <<<<"a">>, <<"b">>, <<"c">>, <<"d">>>>
    /\ disk.favorites = {<<"c">>}
    /\ searchLibraries = <<<<"c">>, <<"a">>, <<"b">>, <<"d">>>>

\* the loop iterations in which a search request left for the tenant
Sent == {i \in 1..Len(trace) : ~trace[i].denied}

\* the tenants that have received a search request, the one in flight included
Requested ==
    {trace[i].library : i \in Sent} \cup (IF pc = "s_await" THEN {library} ELSE {})

\* C14: with maxLibs set, the tenants that receive a search request in one
\* invocation are among the first maxLibs tenants of the favorites-first order,
\* and at most maxLibs requests leave, on every path, also after a 429.
C14_LimitBoundsRequests ==
    (op.name = "search" /\ op.maxLibs # 0) =>
        LET order == FavoritesFirst(slugs, disk.favorites)
        IN  /\ Requested \subseteq {order[k] : k \in 1..Min(op.maxLibs, Len(order))}
            /\ Cardinality(Sent) + Bit(pc = "s_await") <= op.maxLibs

\* C14, witness: maxLibs = 1 over tenants [a, c] with favorite c: the one
\* request went to c, was answered 429, and the invocation has settled.
C14_Witness ==
    /\ SearchDone
    /\ op.maxLibs = 1
    /\ slugs = <<<<"a">>, <<"c">>>>
    /\ disk.favorites = {<<"c">>}
    /\ Len(trace) = 1
    /\ Is429(trace[1])
    /\ Requested = {<<"c">>}

\* C15: loadLibrarySlugs gives the slugs of the first source, in the order
\* cache (only when dynamic), detailed, simple, legacy, that exists and parses,
\* even when that source yields no tenant: the slugs of the cached records, the
\* slugs of the Live entries of the detailed or the simple dataset, the legacy
\* URLs with the domain suffix removed; and the empty list when no source
\* exists and parses.
C15_FirstSourceWins ==
    pc = "loaded" =>
        LET Live(file) == SlugsOf(SelectSeq(file.val, IsLive))
            sources ==
                <<[ok |-> op.dynamic /\ Readable(cache), val |-> SlugsOf(cache.val)],
                  [ok |-> Readable(disk.detailed), val |-> Live(disk.detailed)],
                  [ok |-> Readable(disk.simple), val |-> Live(disk.simple)],
                  [ok |-> Readable(disk.legacy),
                   val |-> [i \in 1..Len(disk.legacy.val) |->
                               StripSuffix(disk.legacy.val[i])]]>>
            usable == {i \in 1..4 : sources[i].ok}
        IN  IF usable = {} THEN slugs = <<>>
            ELSE \E i \in usable :
                    /\ \A j \in usable : i <= j
                    /\ slugs = sources[i].val

\* C15, witness: with dynamic set, a cache that parses and holds no record won
\* over a detailed dataset with Live tenants.
C15_Witness ==
    /\ pc = "loaded"
    /\ op.dynamic
    /\ Readable(cache)
    /\ cache.val = <<>>
    /\ HoldsLiveTenant(disk.detailed)
    /\ slugs = <<>>

\* C16: group ordering: in every group of a returned GroupedResult no
\* unavailable hit stands before an available one, and the unavailable hits
\* stand in ascending estimatedWaitDays; an available hit of tenant a and a hit
\* of tenant b with a wait of 14 days, collected in either order, give the
\* group "Dune-ebook" = [a's hit, b's hit].
C16_GroupOrdering ==
    pc = "aggregated" =>
        \A g \in 1..Len(retGroups) :
            LET hits == retGroups[g].hits
            IN  \A i, j \in 1..Len(hits) :
                    i < j =>
                        /\ hits[j].available => hits[i].available
                        /\ (~hits[i].available /\ ~hits[j].available)
                               => hits[i].estimatedWaitDays <= hits[j].estimatedWaitDays

\* C16, witness: b's hit with a wait of 14 days was collected before a's
\* available hit, and the group lists a's hit first.
C16_Witness ==
    /\ pc = "aggregated"
    /\ Len(results) = 2
    /\ results[1].library = <<"b">> /\ ~results[1].available
    /\ results[1].estimatedWaitDays = 14
    /\ results[2].library = <<"a">> /\ results[2].available
    /\ Len(retGroups) = 1
    /\ retGroups[1].key = "Dune-ebook"
    /\ retGroups[1].hits = <<results[2], results[1]>>

\* C17: the aggregation is stable: every collected hit is in the group of its
\* key, and in each group the hits that the comparator ranks equal (the
\* available ones, or the unavailable ones with the same wait) are exactly the
\* collected hits of that key and rank, in the order in which they were
\* collected.
C17_TiesKeepCollectionOrder ==
    pc = "aggregated" =>
        /\ \A i \in 1..Len(results) :
              \E g \in 1..Len(retGroups) : retGroups[g].key = GroupKey(results[i])
        /\ \A g \in 1..Len(retGroups) :
              \A k \in 1..Len(retGroups[g].hits) :
                  LET Tied(x) ==
                          /\ GroupKey(x) = retGroups[g].key
                          /\ CompareHits(x, retGroups[g].hits[k]) = 0
                  IN  SelectSeq(retGroups[g].hits, Tied) = SelectSeq(results, Tied)

\* C17, witness: an unavailable hit was collected first, then two available
\* hits of the same title from different tenants; the group holds the two
\* available hits in the order collected, then the unavailable one.
C17_Witness ==
    /\ pc = "aggregated"
    /\ Len(results) = 3
    /\ ~results[1].available
    /\ results[2].available /\ results[3].available
    /\ results[2].library # results[3].library
    /\ Len(retGroups) = 1
    /\ retGroups[1].hits = <<results[2], results[3], results[1]>>

\* C18: group iteration order: the groups have distinct keys, every key of the
\* sorted hit sequence has its group, and the groups stand in the order in which
\* their keys first appear in the sorted hit sequence.
C18_GroupsInFirstAppearanceOrder ==
    pc = "aggregated" =>
        LET sorted == SortHits(results)
            At(key) == {i \in 1..Len(sorted) : GroupKey(sorted[i]) = key}
            First(key) == CHOOSE i \in At(key) : \A j \in At(key) : i <= j
        IN  /\ \A i \in 1..Len(sorted) :
                  \E g \in 1..Len(retGroups) : retGroups[g].key = GroupKey(sorted[i])
            /\ \A g \in 1..Len(retGroups) : At(retGroups[g].key) # {}
            /\ \A g, h \in 1..Len(retGroups) :
                  g < h => First(retGroups[g].key) < First(retGroups[h].key)

\* C18, witness: an unavailable "Emma" hit was collected before an available
\* "Dune" hit; the sort puts "Dune" first and so does the GroupedResult.
C18_Witness ==
    /\ pc = "aggregated"
    /\ Len(results) = 2
    /\ results[1].title = "Emma" /\ ~results[1].available
    /\ results[2].title = "Dune" /\ results[2].available
    /\ Len(retGroups) = 2
    /\ retGroups[1].key = "Dune-ebook"
    /\ retGroups[2].key = "Emma-ebook"

\* the seconds a Retry-After header asks for: its number, and 5 when the header
\* is absent or is not a number
HintSeconds(h) == IF ParseInt(h) = NaN THEN 5 ELSE ParseInt(h)

\* C19: on an HTTP 429, in discovery and in search, the flow has been suspended
\* for at least the seconds of the Retry-After header, and for at least 5
\* seconds when the header is absent or is not a number, before it goes on.
C19_RetryAfterHonoured ==
    /\ (pc = "d_consume" /\ lastPage.has /\ lastPage.resp.net
           /\ lastPage.resp.status = 429)
        => pause >= HintSeconds(lastPage.resp.retry)
    /\ (SearchDone /\ trace # <<>> /\ Is429(trace[Len(trace)]))
        => pause >= HintSeconds(trace[Len(trace)].resp.retry)

\* C20: within one search invocation the cache file is read at most once and
\* written at most once, and it is written (or changed at all) only by a
\* discovery that ran inside the invocation.
C20_CacheTouchedOnce ==
    op.name = "search" =>
        /\ reads <= 1
        /\ writes <= 1
        /\ writes > 0 => (caller = "search" /\ idxReqs > 0)
        /\ cache # cache0 => writes > 0

\* the visit v sent a request that failed for a reason other than 429: fetch
\* rejected, a status other than 200, a body that does not parse, or an item
\* without its type
FailedVisit(v) ==
    /\ ~v.denied
    /\ ~Is429(v)
    /\ (~v.resp.net \/ v.resp.status # 200 \/ Throws(v.resp))

\* the hits of the visits of tr whose request did not fail, in visiting order
RECURSIVE HitsOfAnswers(_)
HitsOfAnswers(tr) ==
    IF tr = <<>> THEN <<>>
    ELSE (IF Head(tr).denied \/ Is429(Head(tr)) \/ FailedVisit(Head(tr)) THEN <<>>
          ELSE HitsOf(Head(tr).library, Head(tr).resp.items))
         \o HitsOfAnswers(Tail(tr))

\* C21: a tenant whose search request fails for a reason other than 429
\* (network error, non-200 status, malformed payload, also when the malformed
\* item comes after well-formed ones) contributes no hit: the collected hits
\* are those of the requests that did not fail; and the pass goes on: a settled
\* search without a 429 has visited every tenant and returned.
C21_FailedTenantContributesNothing ==
    op.name = "search" =>
        /\ results = HitsOfAnswers(trace)
        /\ (pc = "done" /\ slugs # <<>> /\ \A i \in 1..Len(trace) : ~Is429(trace[i]))
              => (outcome = "returned" /\ Len(trace) = Len(searchLibraries))

\* C22: within one search invocation no tenant receives two search requests:
\* the requests that have left, the one in flight included, went to pairwise
\* different tenants, also after a 429.
C22_OneRequestPerTenant ==
    op.name = "search" =>
        /\ \A i, j \in Sent : i # j => trace[i].library # trace[j].library
        /\ pc = "s_await" => \A i \in Sent : trace[i].library # library

\* C23: searchLibraries invokes discovery exactly once when loadLibrarySlugs
\* returned an empty list and dynamic is true, and not at all otherwise; the
\* discovery is not forced (a cache that parses is returned without a request),
\* and the tenant list is the slugs of its output.  Without the discovery the
\* search makes no index page request and keeps the list of loadLibrarySlugs.
C23_BootstrapOnce ==
    op.name = "search" =>
        LET sl == LoadLibrarySlugs(op.dynamic, cache0, disk)
        IN  /\ discovers = IF sl = <<>> /\ op.dynamic THEN 1 ELSE 0
            /\ discovers = 0 => (idxReqs = 0 /\ slugs = sl)
            /\ (discovers = 1 /\ ~InPageLoop)
                  => (retDir.has /\ slugs = SlugsOf(retDir.val))
            /\ (discovers = 1 /\ Readable(cache0))
                  => (idxReqs = 0 /\ retDir = Dir(cache0.val))

\* C23, witness: a search found no tenant on disk, ran the discovery, which went
\* to the network, and visited the tenants the discovery returned.
C23_Witness ==
    /\ SearchDone
    /\ discovers = 1
    /\ idxReqs > 0
    /\ slugs # <<>>
    /\ slugs = SlugsOf(retDir.val)
    /\ Len(trace) = Len(slugs)

\* the hits of the sequence hs stand favorites first: no hit of a non-favorite
\* tenant before a hit of a favorite tenant
FavoritesLead(hs) ==
    \A i, j \in 1..Len(hs) :
        (i < j /\ hs[j].library \in disk.favorites) => hs[i].library \in disk.favorites

\* C24: favorite libraries are shown first in the results: when the hits were
\* collected in favorites-first visiting order, in every group of the
\* GroupedResult each hit of a favorite tenant precedes every hit of a
\* non-favorite tenant.
C24_FavoritesFirstInGroups ==
    (pc = "aggregated" /\ FavoritesLead(results)) =>
        \A g \in 1..Len(retGroups) : FavoritesLead(retGroups[g].hits)

\* a step in which an HTTP request leaves: an index page request or a tenant
\* search request
RequestLeaves ==
    \/ idxReqs' = idxReqs + 1
    \/ pc = "s_consume" /\ pc' = "s_await"

\* C25: every outbound request is preceded by its own successful permit
\* consumption: a step in which an index page request (a re-request after a 429
\* or after a rejection included) or a tenant search request leaves is a step
\* with exactly one consume(1), and that consume found the window's count
\* within Points.
C25_PermitBeforeRequest ==
    [][RequestLeaves =>
          /\ consumes' = consumes + 1
          /\ rl'.count <= Points
          /\ rl'.left > 0]_vars

\* C25, witness: the first index page request was answered 429, and after the
\* sleep and a new consume the same page has been requested again.
C25_Witness ==
    /\ pc = "d_await"
    /\ idxReqs = 2
    /\ lastPage.has
    /\ lastPage.resp.status = 429
    /\ consumes >= 2
    /\ currentPage = 1

\* the HTTP requests of the invocation that are outstanding
Outstanding == IF pc \in {"d_await", "s_await"} THEN 1 ELSE 0

\* C26: requests are strictly sequential and in list order: at most one request
\* is outstanding; the list walked is the favorites-first order (cut to
\* maxLibs); the visits so far are those of its first positions, in order; and
\* the tenant whose request is outstanding stands right after them, so that
\* every tenant before it has been answered, has failed or was passed over.
C26_SequentialInListOrder ==
    /\ Outstanding <= 1
    /\ (op.name = "search" /\ pc \in {"s_consume", "s_await", "s_rlwait", "s_sleep429", "done"}
           /\ slugs # <<>>) =>
          /\ searchLibraries = Truncate(FavoritesFirst(slugs, disk.favorites), op.maxLibs)
          /\ Len(trace) <= Len(searchLibraries)
          /\ \A i \in 1..Len(trace) : trace[i].library = searchLibraries[i]
          /\ pc = "s_await" => (idx = Len(trace) + 1 /\ library = searchLibraries[idx])

\* C26, witness: with a favorite among the tenants, the favorite was visited
\* first and a non-favorite second, and the search has returned.
C26_Witness ==
    /\ SearchDone
    /\ outcome = "returned"
    /\ Len(trace) = 2
    /\ ~trace[1].denied /\ ~trace[2].denied
    /\ trace[1].library \in disk.favorites
    /\ trace[2].library \notin disk.favorites
    /\ slugs[1] = trace[2].library

\* C27: every discovery pass that goes to the network finishes in the end and
\* returns a directory, provided each request is answered and each sleep ends,
\* whatever the answers are, an endpoint that answers 429 every time included.
C27_DiscoveryFinishes ==
    InPageLoop ~> (pc = "done" /\ outcome = "returned" /\ retDir.has)

\* C28: after a discovery that went to the network, ended normally or cut short
\* by an error, the cache file parses and holds exactly the directory the
\* discovery returned, which is the normalization of the items fetched in this
\* pass: nothing of the previous cache content is kept.
C28_CacheIsReturnedDirectory ==
    (discovers = 1 /\ idxReqs > 0 /\ ~InPageLoop) =>
        /\ writes = 1
        /\ Readable(cache)
        /\ retDir.has
        /\ cache.val = retDir.val
        /\ cache.val = Normalize(allItems)

\* C28, witness: a forced discovery over a cache with tenants fetched one page,
\* was cut short by a failed request, and left in the cache the directory it
\* returned, which differs from the previous content.
C28_Witness ==
    /\ DiscoverDone
    /\ op.refresh
    /\ Readable(cache0)
    /\ cache0.val # <<>>
    /\ PageFailed(lastPage)
    /\ pages = 1
    /\ cache.val = retDir.val
    /\ cache.val # cache0.val

\* how often x stands in the sequence s
Count(x, s) == Cardinality({i \in 1..Len(s) : s[i] = x})

\* C29: hit conservation: no group of the GroupedResult is empty, the groups
\* have pairwise different keys, each hit of a group has exactly the group's
\* key as its title, "-" and its format (so titles that differ in casing are
\* in different groups), and every collected hit stands in the group of its
\* key as often as it was collected, and nothing else stands in a group.
C29_HitConservation ==
    pc = "aggregated" =>
        /\ \A g \in 1..Len(retGroups) : retGroups[g].hits # <<>>
        /\ \A g, h \in 1..Len(retGroups) : g # h => retGroups[g].key # retGroups[h].key
        /\ \A g \in 1..Len(retGroups) :
              \A k \in 1..Len(retGroups[g].hits) :
                  LET x == retGroups[g].hits[k]
                  IN  /\ retGroups[g].key = x.title \o "-" \o x.format
                      /\ Count(x, retGroups[g].hits) = Count(x, results)
        /\ \A i \in 1..Len(results) :
              \E g \in 1..Len(retGroups) :
                  /\ retGroups[g].key = results[i].title \o "-" \o results[i].format
                  /\ Count(results[i], retGroups[g].hits) = Count(results[i], results)

\* C29, witness: the same available "Dune" hit was collected twice, with a
\* "dune" hit between; the result has a group "Dune-ebook" with the two and a
\* group "dune-ebook" with the one.
C29_Witness ==
    /\ pc = "aggregated"
    /\ Len(results) = 3
    /\ results[1].title = "Dune" /\ results[1].available
    /\ results[2].title = "dune" /\ results[2].available
    /\ results[3] = results[1]
    /\ Len(retGroups) = 2
    /\ retGroups[1] = [key |-> "Dune-ebook", hits |-> <<results[1], results[3]>>]
    /\ retGroups[2] = [key |-> "dune-ebook", hits |-> <<results[2]>>]

\* C30: cache frame: the cache file changes only in the step that ends the page
\* loop of a discovery that went to the network; so slug resolution changes
\* nothing, and a search whose slug resolution gave a non-empty list runs no
\* discovery, writes nothing and leaves the cache file as it found it, whatever
\* the tenants answer.  The static datasets are never written.
C30_CacheFrame ==
    /\ [](/\ cache # cache0 => (writes > 0 /\ idxReqs > 0)
          /\ (op.name = "search" /\ LoadLibrarySlugs(op.dynamic, cache0, disk) # <<>>)
                => (cache = cache0 /\ writes = 0 /\ discovers = 0))
    /\ [][/\ cache' # cache => (pc = "d_await" /\ ~InPageLoop' /\ idxReqs > 0)
          /\ disk' # disk => pc = "idle"]_vars

\* C30, witness: a search with dynamic set over a cache that does not parse
\* took its tenants from a static dataset, met a network error and collected
\* hits, and has settled with the cache file as it was.
C30_Witness ==
    /\ SearchDone
    /\ op.dynamic
    /\ cache0 = BadFile
    /\ cache = cache0
    /\ slugs # <<>>
    /\ \E i \in 1..Len(trace) : IsNetError(trace[i])
    /\ results # <<>>

=============================================================================
